---- MODULE Spec2Model ----
(***************************************************************************)
(* Fixed-bed breakthrough simulation, Ergun-coupled SSP-RK3 variant        *)
(* (src/src/ergun_approach2/breakthrough.cpp).                             *)
(*                                                                         *)
(* A C++ double is modelled as a decimal fixed-point number: the integer x *)
(* stands for the real x / SCALE.  Finite values are limited to            *)
(* -MAXV .. MAXV; the IEEE-754 specials +inf, -inf and NaN are the         *)
(* sentinels PInf, NInf and NaN.  A finite result whose magnitude leaves   *)
(* the modelled range is the sentinel OOR: a step that would produce OOR   *)
(* is outside the model and is not taken.                                  *)
(***************************************************************************)
EXTENDS Integers, Sequences, FiniteSets, TLC

\* ------------------------------------------------------------------------
\* double arithmetic
\* ------------------------------------------------------------------------
SCALE == 10 * 10 * 10
MAXV  == 100000 * SCALE
PInf  == MAXV + 1
NInf  == 0 - (MAXV + 1)
NaN   == MAXV + 2
OOR   == MAXV + 3

IsNaN(a)    == a = NaN
IsOOR(a)    == a = OOR
IsInf(a)    == a = PInf \/ a = NInf
IsFinite(a) == a >= 0 - MAXV /\ a <= MAXV

AbsI(n) == IF n < 0 THEN 0 - n ELSE n
SgnI(n) == IF n < 0 THEN 0 - 1 ELSE IF n > 0 THEN 1 ELSE 0

\* range check of a finite intermediate result
Chk(n) == IF AbsI(n) > MAXV THEN OOR ELSE n

\* a double holding the integer n (static_cast<double>(n))
ToDouble(n) == Chk(n * SCALE)

\* IEEE comparison a < b: false as soon as one operand is NaN
Lt(a, b) == /\ ~IsNaN(a) /\ ~IsNaN(b)
            /\ a < b
Gt(a, b) == Lt(b, a)

\* std::max(a, b) == (a < b) ? b : a
Max(a, b) == IF Lt(a, b) THEN b ELSE a

\* unary minus
Neg(a) == IF IsNaN(a) \/ IsOOR(a) THEN a ELSE 0 - a

\* std::abs / fabs
Fabs(a) == IF IsNaN(a) \/ IsOOR(a) THEN a ELSE AbsI(a)

\* a + b
Add(a, b) ==
  IF IsNaN(a) \/ IsNaN(b) THEN NaN
  ELSE IF IsInf(a) /\ IsInf(b) THEN (IF a = b THEN a ELSE NaN)
  ELSE IF IsOOR(a) \/ IsOOR(b) THEN OOR
  ELSE IF IsInf(a) THEN a
  ELSE IF IsInf(b) THEN b
  ELSE Chk(a + b)

\* a - b
Sub(a, b) == Add(a, Neg(b))

\* |a| * |b| / SCALE for finite a, b, rounded to nearest
MulMag(x, y) ==
  LET xh == x \div SCALE
      xl == x % SCALE
      yh == y \div SCALE
      yl == y % SCALE
  IN  IF yh > 0 /\ xh > (MAXV \div SCALE) \div yh THEN OOR
      ELSE Chk(xh * yh * SCALE + xh * yl + xl * yh + ((xl * yl + (SCALE \div 2)) \div SCALE))

\* a * b
Mul(a, b) ==
  IF IsNaN(a) \/ IsNaN(b) THEN NaN
  ELSE IF IsInf(a) \/ IsInf(b)
       THEN (IF a = 0 \/ b = 0 THEN NaN
             ELSE IF IsOOR(a) \/ IsOOR(b) THEN OOR
             ELSE IF SgnI(a) * SgnI(b) > 0 THEN PInf ELSE NInf)
  ELSE IF IsOOR(a) \/ IsOOR(b) THEN OOR
  ELSE LET m == MulMag(AbsI(a), AbsI(b))
       IN  IF IsOOR(m) THEN OOR ELSE SgnI(a) * SgnI(b) * m

\* |a| * SCALE / |b| for finite a and finite nonzero b, rounded to nearest,
\* by long division (one decimal digit per step)
DivMag(x, y) ==
  LET q0 == x \div y
      r0 == x % y
      d1 == (r0 * 10) \div y
      r1 == (r0 * 10) % y
      d2 == (r1 * 10) \div y
      r2 == (r1 * 10) % y
      d3 == (r2 * 10) \div y
      r3 == (r2 * 10) % y
  IN  IF q0 > MAXV \div SCALE THEN OOR
      ELSE Chk(q0 * SCALE + d1 * 100 + d2 * 10 + d3 + (IF 2 * r3 >= y THEN 1 ELSE 0))

\* a / b
Div(a, b) ==
  IF IsNaN(a) \/ IsNaN(b) THEN NaN
  ELSE IF IsInf(a) /\ IsInf(b) THEN NaN
  ELSE IF b = 0 THEN (IF a = 0 THEN NaN
                      ELSE IF IsOOR(a) THEN OOR
                      ELSE IF a > 0 THEN PInf ELSE NInf)
  ELSE IF IsOOR(a) \/ IsOOR(b) THEN OOR
  ELSE IF IsInf(b) THEN 0
  ELSE IF IsInf(a) THEN (IF SgnI(a) * SgnI(b) > 0 THEN PInf ELSE NInf)
  ELSE LET m == DivMag(AbsI(a), AbsI(b))
       IN  IF IsOOR(m) THEN OOR ELSE SgnI(a) * SgnI(b) * m

\* r * r <= x * SCALE, without forming x * SCALE
SqLeq(r, x) ==
  LET rh == r \div SCALE
      rl == r % SCALE
      hi == rh * rh * SCALE + 2 * rh * rl + ((rl * rl) \div SCALE)
      lo == (rl * rl) % SCALE
  IN  hi < x \/ (hi = x /\ lo = 0)

RECURSIVE SqrtSearch(_, _, _)
\* largest r in lo..hi with r * r <= x * SCALE (bisection)
SqrtSearch(lo, hi, x) ==
  IF lo >= hi THEN lo
  ELSE LET mid == (lo + hi + 1) \div 2
       IN  IF SqLeq(mid, x) THEN SqrtSearch(mid, hi, x) ELSE SqrtSearch(lo, mid - 1, x)

\* sqrt(a)
Sqrt(a) ==
  IF IsNaN(a) \/ IsOOR(a) THEN a
  ELSE IF a < 0 THEN NaN
  ELSE IF a = PInf THEN PInf
  ELSE SqrtSearch(0, 320000, a)

\* pow(a, 3./2.)
Pow32(a) == Mul(a, Sqrt(a))

\* ------------------------------------------------------------------------
\* program constants
\* ------------------------------------------------------------------------
\* const double R = 8.31446261815324
R == 8314
\* helium carrier and particle constants hard-coded in computeVelocity and
\* computeInitialPressure
mu0      == 21
T_mu0    == 323150
S        == 72900
par_diam == 5
M        == 4003
\* ------------------------------------------------------------------------
\* bounds of the model
\* ------------------------------------------------------------------------
\* largest number of grid intervals Ngrid
MaxGrid   == 2
\* largest configured number of time steps
MaxNsteps == 3
\* cap on the step counter of a run whose loop would not end
MaxStep   == 6
\* largest number of oracle calls that report failure in one run
MaxFail   == 1

\* ------------------------------------------------------------------------
\* inputs (InputReader)
\* ------------------------------------------------------------------------
\* a component: inlet mole fraction Yi0, mass-transfer coefficient Kl, axial
\* dispersion coefficient D and the (Henry) coefficient H of its isotherm
Component(y0, kl, h) == [Yi0 |-> y0, Kl |-> kl, D |-> 50, H |-> h]

\* component lists with the index of the carrier gas: one inert carrier
\* (helium) and one or two adsorbing species
Mixtures ==
  { [components |-> (0 :> Component(800, 100, 1000) @@ 1 :> Component(200, 0, 0)),
     carrierGasComponent |-> 1],
    [components |-> (0 :> Component(800, 0, 0) @@ 1 :> Component(200, 100, 1000)),
     carrierGasComponent |-> 0],
    [components |-> (0 :> Component(200, 100, 1000) @@ 1 :> Component(600, 0, 0)
                     @@ 2 :> Component(200, 100, 100)),
     carrierGasComponent |-> 1] }

\* the simulation inputs; pulseTime is read only when pulseBreakthrough is
\* set, so one value of it is kept for the runs without a pulse
Inputs ==
  { r \in [ mixture               : Mixtures,
            numberOfGridPoints    : 1..MaxGrid,
            writeEvery            : {1, 2},
            maxIsothermTerms      : {2},
            temperature           : {300000},
            totalPressure         : {10000},
            pressureGradient      : {0, 0 - 12000},
            columnVoidFraction    : {900},
            particleDensity       : {1000},
            columnEntranceVelocity: {10},
            columnLength          : {1000},
            timeStep              : {100},
            numberOfTimeSteps     : 0..MaxNsteps,
            autoNumberOfTimeSteps : BOOLEAN,
            pulseBreakthrough     : BOOLEAN,
            pulseTime             : {50, 100} ] :
      r.pulseBreakthrough \/ r.pulseTime = 100 }

\* the same inputs with a time step of zero
ZeroDtInputs == {[r EXCEPT !.timeStep = 0] : r \in Inputs}

\* values a read past the end of a velocity buffer may yield
OOBValues == {0, 20000}

VARIABLES
  input,            \* the InputReader the object was constructed from
  pastEnd,          \* the double lying past the end of V and Vnew
  pc,               \* position of main/run/computeStep
  step,             \* loop variable of run()
  Nsteps, autoSteps,
  convStep,         \* history: the step whose auto-stop test was met, -1 before
  iastPerformance,
  prefactor,
  Yi, Yinew, V, Vnew, Pt, Ptnew, P, Pnew, Q, Qnew, Qeq, Qeqnew,
  Dpdt, Dpdtnew, Dqdt, Dqdtnew, Dydt, Dydtnew,
  movie,            \* the frames written so far to column.data and the component files
  exited,           \* main has returned or called exit
  exitStatus,       \* the status main ended with
  cerr,             \* what was written to std::cerr
  cancelRequested,  \* the embedding host has asked the run to stop
  Ni,               \* the loadings the last oracle call returned
  oracleLog,        \* history: the oracle calls made so far, in the order made
  called, copied    \* nodes of the sweep in progress whose oracle call is made / copied

config  == <<input, pastEnd>>
control == <<pc, step, Nsteps, autoSteps, convStep, iastPerformance>>
column  == <<Yi, V, Pt, P, Q, Qeq>>
shadow  == <<Yinew, Vnew, Ptnew, Pnew, Qnew, Qeqnew>>
derivs  == <<Dpdt, Dqdt, Dydt>>
derivsnew == <<Dpdtnew, Dqdtnew, Dydtnew>>
host    == <<exited, exitStatus, cerr, cancelRequested>>
sweepState == <<called, copied>>
vars == <<config, control, prefactor, column, shadow, derivs, derivsnew, movie, host,
          Ni, oracleLog, sweepState>>

\* ------------------------------------------------------------------------
\* members set by the constructor
\* ------------------------------------------------------------------------
components          == input.mixture.components
carrierGasComponent == input.mixture.carrierGasComponent
Ncomp   == Cardinality(DOMAIN components)
Ngrid   == input.numberOfGridPoints
writeEvery == input.writeEvery
maxIsothermTerms == input.maxIsothermTerms
T       == input.temperature
p_total == input.totalPressure
dptdx   == input.pressureGradient
epsilon == input.columnVoidFraction
rho_p   == input.particleDensity
v_in    == input.columnEntranceVelocity
L       == input.columnLength
dx      == Div(L, ToDouble(Ngrid))
dt      == input.timeStep
pulse   == input.pulseBreakthrough
tpulse  == input.pulseTime

Comps == 0..(Ncomp - 1)
Nodes == 0..Ngrid
Cells == 0..((Ngrid + 1) * Ncomp - 1)

\* a std::vector<double> of n zeros
Zeros(n) == [k \in 0..(n - 1) |-> 0]

\* no element of the array left the modelled range
InRange(a) == \A k \in DOMAIN a : ~IsOOR(a[k])

\* the state after construction from one of the inputs ins
InitFrom(ins) ==
  /\ input \in ins
  /\ pastEnd \in OOBValues
  /\ pc = "constructed"
  /\ step = 0
  /\ Nsteps = input.numberOfTimeSteps
  /\ autoSteps = input.autoNumberOfTimeSteps
  /\ convStep = 0 - 1
  /\ iastPerformance = <<0, 0>>
  /\ prefactor = Zeros(Ncomp)
  /\ Yi = Zeros((Ngrid + 1) * Ncomp) /\ Yinew = Zeros((Ngrid + 1) * Ncomp)
  /\ V = Zeros(Ngrid + 1) /\ Vnew = Zeros(Ngrid + 1)
  /\ Pt = Zeros(Ngrid + 1) /\ Ptnew = Zeros(Ngrid + 1)
  /\ P = Zeros((Ngrid + 1) * Ncomp) /\ Pnew = Zeros((Ngrid + 1) * Ncomp)
  /\ Q = Zeros((Ngrid + 1) * Ncomp) /\ Qnew = Zeros((Ngrid + 1) * Ncomp)
  /\ Qeq = Zeros((Ngrid + 1) * Ncomp) /\ Qeqnew = Zeros((Ngrid + 1) * Ncomp)
  /\ Dpdt = Zeros((Ngrid + 1) * Ncomp) /\ Dpdtnew = Zeros((Ngrid + 1) * Ncomp)
  /\ Dqdt = Zeros((Ngrid + 1) * Ncomp) /\ Dqdtnew = Zeros((Ngrid + 1) * Ncomp)
  /\ Dydt = Zeros((Ngrid + 1) * Ncomp) /\ Dydtnew = Zeros((Ngrid + 1) * Ncomp)
  /\ movie = <<>>
  /\ exited = FALSE /\ exitStatus = 0 /\ cerr = <<>>
  /\ cancelRequested = FALSE
  /\ Ni = Zeros(Ncomp)
  /\ oracleLog = <<>>
  /\ called = {} /\ copied = {}

Init == InitFrom(Inputs)

\* ------------------------------------------------------------------------
\* the equilibrium oracle (MixturePrediction::predictMixture)
\* ------------------------------------------------------------------------
\* loadings Ni for gas mole fractions y (indexed by component) at total
\* pressure pt: zero for the carrier gas, a non-negative Henry-law loading
\* H * y * pt for an adsorbing component
predictMixture(y, pt) ==
  [j \in Comps |->
     IF j = carrierGasComponent THEN 0
     ELSE Max(0, Mul(Mul(components[j].H, y[j]), pt))]

\* ------------------------------------------------------------------------
\* Ergun closure
\* ------------------------------------------------------------------------
\* mu0 * v_in * (150 * (1-epsilon) * (1-epsilon)) /
\*   ((epsilon * epsilon) * (par_diam * par_diam));
\* the factors are applied one at a time so that every intermediate value
\* stays inside the fixed-point range (par_diam * par_diam alone is below
\* its resolution); the real number computed is the same
laminar_prefactor ==
  LET oneMinusEps == Sub(ToDouble(1), epsilon)
      num == Mul(mu0, Mul(Mul(ToDouble(150), oneMinusEps), oneMinusEps))
  IN  Div(Mul(Div(Div(num, Mul(epsilon, epsilon)), par_diam), v_in), par_diam)

\* v_in * fabs(v_in) * (1.75 * (1-epsilon) * M) / (epsilon * par_diam * R),
\* the factors applied one at a time as for laminar_prefactor
turbulent_prefactor ==
  LET oneMinusEps == Sub(ToDouble(1), epsilon)
      num == Mul(Mul(1750, oneMinusEps), M)
  IN  Div(Mul(Div(Div(Mul(num, v_in), epsilon), par_diam), Fabs(v_in)), R)

\* x * pow(T_g/T_mu0, 3./2.) * (T_mu0 + S)/(T_g + S), evaluated left to right
Sutherland(x, T_g) ==
  Div(Mul(Mul(x, Pow32(Div(T_g, T_mu0))), Add(T_mu0, S)), Add(T_g, S))

RECURSIVE InitialPressureAt(_, _)
\* p[i] of computeInitialPressure: p[Ngrid] = p_total and
\* p[i-1] = p[i] - f_p * dx, f_p evaluated at p[i]
InitialPressureAt(i, T_g) ==
  IF i = Ngrid THEN p_total
  ELSE LET pn  == InitialPressureAt(i + 1, T_g)
           f_p == Sub(Sutherland(Neg(laminar_prefactor), T_g),
                      Mul(turbulent_prefactor, Div(pn, T_g)))
       IN  Sub(pn, Mul(f_p, dx))

computeInitialPressure(T_g) == [i \in Nodes |-> InitialPressureAt(i, T_g)]

\* term_a = laminar_prefactor * Pt[i] / T_g
term_a(pt, i, T_g) == Div(Mul(laminar_prefactor, pt[i]), T_g)

\* term_b = turbulent_prefactor * pow(T_g/T_mu0, 3./2.) * (T_mu0 + S)/(T_g + S)
term_b(T_g) == Sutherland(turbulent_prefactor, T_g)

\* term_c = (Pt[i] - Pt[i-1]) / dx
term_c(pt, i) == Div(Sub(pt[i], pt[i - 1]), dx)

\* the root the Ergun quadratic gives at node i >= 1 for total pressures pt
VelocityAt(pt, i, T_g) ==
  LET a == term_a(pt, i, T_g)
      b == term_b(T_g)
      c == term_c(pt, i)
      D == Sub(Mul(b, b), Mul(Mul(ToDouble(4), a), c))
  IN  Mul(Div(ToDouble(1), Mul(ToDouble(2), a)),
          Add(Mul(Neg(ToDouble(1)), b), Sqrt(D)))

\* computeVelocity: Vnew from the committed total pressure Pt
computeVelocity(T_g) ==
  [i \in Nodes |-> IF i = 0 THEN v_in ELSE VelocityAt(Pt, i, T_g)]

\* ------------------------------------------------------------------------
\* spatial discretization
\* ------------------------------------------------------------------------
RECURSIVE SumSorptionY(_, _, _, _, _, _)
\* sum over j < n of pre[j] * (q_eq[i,j] - q[i,j]) * y[i,j]
SumSorptionY(pre, q_eq, q, y, i, n) ==
  IF n = 0 THEN 0
  ELSE LET j == n - 1
       IN  Add(SumSorptionY(pre, q_eq, q, y, i, j),
               Mul(Mul(pre[j], Sub(q_eq[i * Ncomp + j], q[i * Ncomp + j])), y[i * Ncomp + j]))

RECURSIVE SumSorption(_, _, _, _, _)
\* sum over j < n of pre[j] * (q_eq[i,j] - q[i,j])
SumSorption(pre, q_eq, q, i, n) ==
  IF n = 0 THEN 0
  ELSE LET j == n - 1
       IN  Add(SumSorption(pre, q_eq, q, i, j),
               Mul(pre[j], Sub(q_eq[i * Ncomp + j], q[i * Ncomp + j])))

\* dpdt[i] as the iteration for component j of the loop assigns it;
\* vnext is v[i + 1]
DpdtAt(pre, q_eq, q, v, vnext, p, i, j) ==
  LET idx  == Div(ToDouble(1), dx)
      sink == Mul(pre[j], Sub(q_eq[i * Ncomp + j], q[i * Ncomp + j]))
  IN  IF i < Ngrid
      THEN Sub(Sub(Mul(Mul(Neg(v[i]), Sub(p[i + 1], p[i])), idx),
                   Mul(Mul(p[i], Sub(vnext, v[i])), idx)),
               sink)
      ELSE Sub(Mul(Mul(Neg(p[i]), Sub(vnext, v[i])), idx), sink)

\* dydt[i,j]
DydtAt(pre, q_eq, q, v, p, y, i, j) ==
  LET idx   == Div(ToDouble(1), dx)
      idx2  == Div(ToDouble(1), Mul(dx, dx))
      k     == i * Ncomp + j
      km    == (i - 1) * Ncomp + j
      grad  == Div(Mul(Sub(p[i], p[i - 1]), Sub(y[k], y[km])), p[i])
      lap   == IF i < Ngrid
               THEN Add(Add(Sub(y[(i + 1) * Ncomp + j], Mul(ToDouble(2), y[k])), y[km]), grad)
               ELSE Add(Add(Neg(y[k]), y[km]), grad)
      sum   == IF i < Ngrid
               THEN Div(SumSorptionY(pre, q_eq, q, y, i, Ncomp), p[i])
               ELSE Div(SumSorption(pre, q_eq, q, i, Ncomp), p[i])
  IN  IF i = 0 THEN 0
      ELSE Sub(Add(Sub(Mul(Mul(components[j].D, lap), idx2),
                       Mul(Mul(v[i], Sub(y[k], y[km])), idx)),
                   sum),
               Div(Sub(q_eq[k], q[k]), p[i]))

\* computeFirstDerivatives(dqdt, dpdt, dydt, q_eq, q, v, p, y): the three
\* output arrays.  dpdt is written at the node indices 0..Ngrid only, each
\* node's value being the one the last component of the loop leaves there;
\* the outlet stencil reads v[Ngrid + 1], one element past the end of v
computeFirstDerivatives(dpdt, q_eq, q, v, p, y) ==
  [ dqdt |-> [k \in Cells |-> Mul(components[k % Ncomp].Kl, Sub(q_eq[k], q[k]))],
    dpdt |-> [k \in Cells |->
                IF k <= Ngrid
                THEN DpdtAt(prefactor, q_eq, q, v,
                            IF k < Ngrid THEN v[k + 1] ELSE pastEnd,
                            p, k, Ncomp - 1)
                ELSE dpdt[k]],
    dydt |-> [k \in Cells |->
                DydtAt(prefactor, q_eq, q, v, p, y, k \div Ncomp, k % Ncomp)] ]

\* ------------------------------------------------------------------------
\* Breakthrough::initialize
\* ------------------------------------------------------------------------
RECURSIVE SumRow(_, _, _)
\* a[i,0] + ... + a[i,n-1], added in this order starting from 0.0
SumRow(a, i, n) ==
  IF n = 0 THEN 0 ELSE Add(SumRow(a, i, n - 1), a[i * Ncomp + (n - 1)])

\* the mole fractions of node i as a vector indexed by component (Yi_i)
Row(a, i) == [j \in Comps |-> a[i * Ncomp + j]]

\* one oracle call as the caller makes it: the node whose state is passed and
\* the offsets of the scratch passed, &cachedP0[i * Ncomp * maxIsothermTerms]
\* and &cachedPsi[i * maxIsothermTerms]
OracleCallOf(i) ==
  [node |-> i, P0 |-> i * Ncomp * maxIsothermTerms, Psi |-> i * maxIsothermTerms]

\* variant: the loop over the nodes started at i = 1
SweepCallsInterior == [n \in 1..Ngrid |-> OracleCallOf(n)]

\* the calls of one loop for (size_t i = 0; i < Ngrid + 1; ++i), in order
SweepCalls == [n \in 1..(Ngrid + 1) |-> OracleCallOf(n - 1)]

\* what one sweep of oracle calls over the nodes 0..Ngrid adds to
\* iastPerformance when nf of the calls report failure: every call reports
\* one inner iteration and a success flag of 1 or 0
AfterSweep(perf, nf) == <<perf[1] + (Ngrid + 1), perf[2] + ((Ngrid + 1) - nf)>>

\* how many calls of the next sweep may report failure
FailChoices == IF iastPerformance[1] - iastPerformance[2] < MaxFail THEN {0, 1} ELSE {0}

\* variant: the carrier gas at p_total at every node i >= 1
InitialPFlat(pt_init) ==
  [k \in Cells |->
     IF k \div Ncomp = 0 THEN Mul(p_total, components[k % Ncomp].Yi0)
     ELSE IF k % Ncomp = carrierGasComponent THEN p_total
     ELSE 0]

\* partial pressures set by initialize: zero, the carrier gas at the initial
\* total pressure for i >= 1, the feed at the entrance
InitialP(pt_init) ==
  [k \in Cells |->
     IF k \div Ncomp = 0 THEN Mul(p_total, components[k % Ncomp].Yi0)
     ELSE IF k % Ncomp = carrierGasComponent THEN pt_init[k \div Ncomp]
     ELSE 0]

\* mole fractions set by initialize from P and pt_init, normalised per node
InitialYi(p, pt_init) ==
  LET raw == [k \in Cells |-> Max(Div(p[k], pt_init[k \div Ncomp]), 0)]
  IN  [k \in Cells |-> Div(raw[k], SumRow(raw, k \div Ncomp, Ncomp))]

Initialize ==
  /\ pc = "constructed"
  /\ \E nf \in FailChoices :
       LET pt_init == computeInitialPressure(T) IN
       /\ prefactor' = [j \in Comps |->
                          Mul(Mul(Mul(Mul(R, T), Div(Sub(ToDouble(1), epsilon), epsilon)), rho_p),
                              components[j].Kl)]
       /\ Q' = Zeros((Ngrid + 1) * Ncomp)
       /\ V' = [i \in Nodes |-> Div(Mul(v_in, p_total), pt_init[i])]
       /\ P' = InitialP(pt_init)
       /\ Yi' = InitialYi(P', pt_init)
       /\ Qeq' = [k \in Cells |->
                    predictMixture(Row(Yi', k \div Ncomp), pt_init[k \div Ncomp])[k % Ncomp]]
       /\ Ni' = predictMixture(Row(Yi', Ngrid), pt_init[Ngrid])
       /\ oracleLog' = oracleLog \o SweepCalls
       /\ iastPerformance' = AfterSweep(iastPerformance, nf)
       /\ Pt' = [i \in Nodes |-> SumRow([k \in Cells |-> Max(0, P'[k])], i, Ncomp)]
       /\ InRange(prefactor') /\ InRange(V') /\ InRange(P') /\ InRange(Yi')
       /\ InRange(Qeq') /\ InRange(Pt')
  /\ pc' = "loop"
  /\ UNCHANGED <<config, step, Nsteps, autoSteps, convStep, shadow, derivs, derivsnew, movie, host,
               sweepState>>

\* ------------------------------------------------------------------------
\* Breakthrough::computeStep
\* ------------------------------------------------------------------------
RECURSIVE ToleranceUpTo(_)
\* tolerance after the loop over the components j < n
ToleranceUpTo(n) ==
  IF n = 0 THEN 0
  ELSE LET j == n - 1
       IN  Max(ToleranceUpTo(j),
               Fabs(Sub(Div(P[Ngrid * Ncomp + j],
                            Mul(Add(p_total, Mul(dptdx, L)), components[j].Yi0)),
                        ToDouble(1))))

\* the auto-stop test is made and met
Converged == autoSteps /\ Lt(ToleranceUpTo(Ncomp), 10)

\* static_cast<size_t>(x) of a non-negative double
TruncToSize(x) == x \div SCALE

\* variant: the product rounded up
AutoNstepsCeil(s) ==
  LET x == Mul(1100, ToDouble(s))
  IN  TruncToSize(x) + (IF x % SCALE = 0 THEN 0 ELSE 1)

\* variant: the factor 11 in place of 1.1
AutoNstepsEleven(s) == TruncToSize(Mul(ToDouble(11), ToDouble(s)))

\* Nsteps = static_cast<size_t>(1.1 * static_cast<double>(step))
AutoNsteps(s) == TruncToSize(Mul(1100, ToDouble(s)))

\* computeEquilibriumLoadings: Qeqnew from the committed Yi and Pt
computeEquilibriumLoadings ==
  [k \in Cells |-> predictMixture(Row(Yi, k \div Ncomp), Pt[k \div Ncomp])[k % Ncomp]]

\* the test that makes computeEquilibriumLoadings throw
NegativeOutlet == Lt(Add(Pt[0], Mul(dptdx, L)), 0)

\* computeEquilibriumLoadings(); computeVelocity(T); of one stage
StageTail(nextpc) ==
  /\ \E nf \in FailChoices : iastPerformance' = AfterSweep(iastPerformance, nf)
  /\ Qeqnew' = computeEquilibriumLoadings
  /\ Ni' = predictMixture(Row(Yi, Ngrid), Pt[Ngrid])
  /\ oracleLog' = oracleLog \o SweepCalls
  /\ IF NegativeOutlet
     THEN pc' = "aborted" /\ Vnew' = Vnew
     ELSE pc' = nextpc /\ Vnew' = computeVelocity(T)
  /\ InRange(Qeqnew') /\ InRange(Vnew')

\* variant: the switch made from t = tpulse on
PulseInletFrom(p, t) ==
  IF pulse /\ (Gt(t, tpulse) \/ t = tpulse)
  THEN [k \in Cells |->
          IF k \div Ncomp = 0
          THEN (IF k % Ncomp = carrierGasComponent THEN p_total ELSE 0)
          ELSE p[k]]
  ELSE p

\* the pulse boundary condition at the end of computeStep, applied to the
\* partial pressures p at time t
PulseInlet(p, t) ==
  IF pulse /\ Gt(t, tpulse)
  THEN [k \in Cells |->
          IF k \div Ncomp = 0
          THEN (IF k % Ncomp = carrierGasComponent THEN p_total ELSE 0)
          ELSE p[k]]
  ELSE p

\* variant: the step index compared with <=
LoopCondInclusive(s, n, auto) == s <= n \/ auto

\* the loop condition of run()
LoopCond(s, n, auto) == s < n \/ auto

\* variant: the velocity of the stage stored in V as well as in Vnew
StageKeepsButV == UNCHANGED <<Yi, Pt, P, Q, Qeq>> /\ V' = Vnew'

\* what a stage of computeStep leaves alone: its loops, computeEquilibriumLoadings
\* and computeVelocity assign to Ptnew, Qnew, Yinew, Pnew, Qeqnew and Vnew only
StageKeeps == UNCHANGED column

\* variant: the mole fractions multiplied by the committed total pressure
PartialPressuresCommitted(y, pt) == [k \in Cells |-> Mul(y[k], Pt[k \div Ncomp])]

\* Pnew[i * Ncomp + j] = Yinew[i * Ncomp + j] * Ptnew[i] of a stage
PartialPressures(y, pt) == [k \in Cells |-> Mul(y[k], pt[k \div Ncomp])]

\* loop test passed; auto-stop check and SSP-RK step 1 of computeStep(step)
\* up to the call of computeEquilibriumLoadings
Stage1Update ==
  /\ pc = "loop"
  /\ LoopCond(step, Nsteps, autoSteps)
  /\ step < MaxStep
  /\ autoSteps => ~IsOOR(ToleranceUpTo(Ncomp))
  /\ Nsteps' = IF Converged THEN AutoNsteps(step) ELSE Nsteps
  /\ autoSteps' = IF Converged THEN FALSE ELSE autoSteps
  /\ convStep' = IF Converged THEN step ELSE convStep
  /\ LET d == computeFirstDerivatives(Dpdt, Qeq, Q, V, P, Yi) IN
       /\ Dqdt' = d.dqdt /\ Dpdt' = d.dpdt /\ Dydt' = d.dydt
  /\ Ptnew' = [i \in Nodes |-> Add(Pt[i], Mul(dt, Dpdt'[i]))]
  /\ Qnew' = [k \in Cells |-> Add(Q[k], Mul(dt, Dqdt'[k]))]
  /\ Yinew' = [k \in Cells |-> Add(Yi[k], Mul(dt, Dydt'[k]))]
  /\ Pnew' = PartialPressures(Yinew', Ptnew')
  /\ InRange(Dqdt') /\ InRange(Dpdt') /\ InRange(Dydt')
  /\ InRange(Ptnew') /\ InRange(Qnew') /\ InRange(Yinew') /\ InRange(Pnew')

\* loop test passed; auto-stop check and SSP-RK step 1 of computeStep(step)
Stage1 ==
  /\ Stage1Update
  /\ StageTail("stage2")
  /\ StageKeeps
  /\ UNCHANGED <<config, step, prefactor, derivsnew, movie, host, sweepState>>

\* variant: the weight of the committed value left out
BlendNew(a, b, old, new, d) == Add(Mul(b, new), Mul(Mul(b, dt), d))

\* a * old + b * new + b * dt * d
Blend(a, b, old, new, d) == Add(Add(Mul(a, old), Mul(b, new)), Mul(Mul(b, dt), d))

\* SSP-RK steps 2 and 3 with the weights a and b
StageNew(a, b, nextpc) ==
  /\ LET d == computeFirstDerivatives(Dpdtnew, Qeqnew, Qnew, Vnew, Ptnew, Yinew) IN
       /\ Dqdtnew' = d.dqdt /\ Dpdtnew' = d.dpdt /\ Dydtnew' = d.dydt
  /\ Ptnew' = [i \in Nodes |-> Blend(a, b, Pt[i], Ptnew[i], Dpdtnew'[i])]
  /\ Qnew' = [k \in Cells |-> Blend(a, b, Q[k], Qnew[k], Dqdtnew'[k])]
  /\ Yinew' = [k \in Cells |-> Blend(a, b, Yi[k], Yinew[k], Dydtnew'[k])]
  /\ Pnew' = PartialPressures(Yinew', Ptnew')
  /\ InRange(Dqdtnew') /\ InRange(Dpdtnew') /\ InRange(Dydtnew')
  /\ InRange(Ptnew') /\ InRange(Qnew') /\ InRange(Yinew') /\ InRange(Pnew')
  /\ StageTail(nextpc)
  /\ StageKeeps
  /\ UNCHANGED <<config, step, Nsteps, autoSteps, convStep, prefactor, derivs, movie, host,
               sweepState>>

Stage2 ==
  /\ pc = "stage2"
  /\ StageNew(750, 250, "stage3")

Stage3 ==
  /\ pc = "stage3"
  /\ StageNew(Div(ToDouble(1), ToDouble(3)), Div(ToDouble(2), ToDouble(3)), "commit")

\* variant: the test made on the number of steps done
FrameDueAfter(s) == (s + 1) % writeEvery = 0

\* the test of run() for writing the output of step s
FrameDue(s) == s % writeEvery = 0

\* the lines run() writes to column.data for one frame, in the order
\* written: one line per node with z = i * dx, V[i] and Pt[i] of the arrays
\* v and pt
FrameLines(v, pt) ==
  [n \in 1..(Ngrid + 1) |-> [z |-> Mul(ToDouble(n - 1), dx), V |-> v[n - 1], Pt |-> pt[n - 1]]]

\* what run() writes to the component files for one frame at time t: the
\* dimensionless time t * v_in / L, the time in minutes t / 60.0 and, for
\* every component, the normalized outlet partial pressure taken from p
ComponentLines(t, p) ==
  [tau |-> Div(Mul(t, v_in), L),
   minutes |-> Div(t, ToDouble(60)),
   Pnorm |-> [j \in Comps |->
                Div(p[Ngrid * Ncomp + j],
                    Mul(Add(p_total, Mul(dptdx, L)), components[j].Yi0))]]

\* update to the new time step, pulse boundary condition, and the rest of
\* the loop body of run(): the frame written after computeStep has returned
Commit ==
  /\ pc = "commit"
  /\ Q' = Qnew /\ Pt' = Ptnew /\ Qeq' = Qeqnew /\ V' = Vnew /\ Yi' = Yinew
  /\ P' = PulseInlet(Pnew, Mul(ToDouble(step), dt))
  /\ movie' = IF FrameDue(step)
              THEN Append(movie, [step |-> step,
                                  data |-> ComponentLines(Mul(ToDouble(step), dt), P'),
                                  lines |-> FrameLines(V', Pt')])
              ELSE movie
  /\ FrameDue(step) => InRange(ComponentLines(Mul(ToDouble(step), dt), P').Pnorm)
  /\ step' = step + 1
  /\ pc' = "loop"
  /\ UNCHANGED <<config, Nsteps, autoSteps, convStep, iastPerformance, prefactor, shadow,
                 derivs, derivsnew, host, Ni, oracleLog, sweepState>>

\* the loop of run() ends
Finish ==
  /\ pc = "loop"
  /\ ~LoopCond(step, Nsteps, autoSteps)
  /\ pc' = "done"
  /\ UNCHANGED <<config, step, Nsteps, autoSteps, convStep, iastPerformance, prefactor, column,
               shadow, derivs, derivsnew, movie, host, Ni, oracleLog, sweepState>>

\* variant: every run ends with status 0
ExitStatusZero(p) == 0

\* the status main ends with: return 0 after run() has returned, exit(-1)
\* in the handler of an exception
ExitStatus(p) == IF p = "aborted" THEN 0 - 1 ELSE 0

\* the message of the std::runtime_error computeEquilibriumLoadings throws
what == "Error: pressure gradient is too large (negative outlet pressure)\n"

\* what the handler writes to std::cerr: e.what()
ErrorOutput(p) == IF p = "aborted" THEN <<what>> ELSE <<>>

\* main ends: run() has returned, or the exception has reached the handler
MainExit ==
  /\ pc \in {"done", "aborted"}
  /\ ~exited
  /\ exited' = TRUE
  /\ exitStatus' = ExitStatus(pc)
  /\ cerr' = cerr \o ErrorOutput(pc)
  /\ UNCHANGED <<config, control, prefactor, column, shadow, derivs, derivsnew, movie,
                 cancelRequested, Ni, oracleLog, sweepState>>

Next == Initialize \/ Stage1 \/ Stage2 \/ Stage3 \/ Commit \/ Finish \/ MainExit

Spec == Init /\ [][Next]_vars

\* the program run with a time step of zero
SpecZeroDt == InitFrom(ZeroDtInputs) /\ [][Next]_vars

\* ------------------------------------------------------------------------
\* the sweep of computeEquilibriumLoadings in SSP-RK step 1, node by node
\* ------------------------------------------------------------------------
\* what one oracle call adds to iastPerformance; nf = 1 when it reports failure
AfterCall(perf, nf) == <<perf[1] + 1, perf[2] + (1 - nf)>>

\* computeStep(step) up to the call of computeEquilibriumLoadings
Stage1Begin ==
  /\ Stage1Update
  /\ pc' = "sweep"
  /\ UNCHANGED <<config, step, iastPerformance, prefactor, column, Qeqnew, Vnew, derivsnew,
                 movie, host, Ni, oracleLog, sweepState>>

\* the oracle call of node i: predictMixture(Yi_i, Pt[i], Xi, Ni, ...) fills
\* the member Ni, and the pair it returns is added to iastPerformance
OracleCall(i) ==
  /\ pc = "sweep"
  /\ i \in Nodes \ called
  /\ \E nf \in FailChoices : iastPerformance' = AfterCall(iastPerformance, nf)
  /\ Ni' = predictMixture(Row(Yi, i), Pt[i])
  /\ oracleLog' = Append(oracleLog, OracleCallOf(i))
  /\ called' = called \cup {i}
  /\ InRange(Ni')
  /\ UNCHANGED <<config, pc, step, Nsteps, autoSteps, convStep, prefactor, column, shadow,
                 derivs, derivsnew, movie, host, copied>>

\* the loop that follows the call of node i: Qeqnew[i * Ncomp + j] = Ni[j]
CopyLoadings(i) ==
  /\ pc = "sweep"
  /\ i \in called \ copied
  /\ Qeqnew' = [k \in Cells |-> IF k \div Ncomp = i THEN Ni[k % Ncomp] ELSE Qeqnew[k]]
  /\ copied' = copied \cup {i}
  /\ UNCHANGED <<config, control, prefactor, column, Yinew, Vnew, Ptnew, Pnew, Qnew,
                 derivs, derivsnew, movie, host, Ni, oracleLog, called>>

\* every node is done: the outlet-pressure test of computeEquilibriumLoadings
\* and computeVelocity(T)
SweepEnd ==
  /\ pc = "sweep"
  /\ copied = Nodes
  /\ IF NegativeOutlet
     THEN pc' = "aborted" /\ Vnew' = Vnew
     ELSE pc' = "stage2" /\ Vnew' = computeVelocity(T)
  /\ InRange(Vnew')
  /\ called' = {} /\ copied' = {}
  /\ UNCHANGED <<config, step, Nsteps, autoSteps, convStep, iastPerformance, prefactor,
                 column, Yinew, Ptnew, Pnew, Qnew, Qeqnew, derivs, derivsnew, movie, host, Ni, oracleLog>>

NextSweep ==
  \/ Initialize
  \/ Stage1Begin
  \/ \E i \in Nodes : OracleCall(i)
  \/ \E i \in Nodes : CopyLoadings(i)
  \/ SweepEnd

\* initialize and the first stage of the first step, the per-node work of
\* computeEquilibriumLoadings scheduled in any order
SpecSweep == Init /\ [][NextSweep]_vars

\* the embedding host asks a run in progress to stop
RequestCancel ==
  /\ pc \in {"loop", "stage2", "stage3", "commit"}
  /\ ~cancelRequested
  /\ cancelRequested' = TRUE
  /\ UNCHANGED <<config, control, prefactor, column, shadow, derivs, derivsnew, movie,
                 exited, exitStatus, cerr, Ni, oracleLog, sweepState>>

NextHost == Next \/ RequestCancel

\* the program run by a host that may ask for cancellation
SpecHost == Init /\ [][NextHost]_vars

\* ------------------------------------------------------------------------
\* properties
\* ------------------------------------------------------------------------
\* rounding allowance of the fixed-point arithmetic: 0.01
Eps == SCALE \div 100

\* a and b are finite and differ by at most eps
Near(a, b, eps) == IsFinite(a) /\ IsFinite(b) /\ AbsI(a - b) <= eps

\* computeStep(step) has been entered and has not returned normally
Executing == pc \in {"stage2", "stage3", "commit", "aborted"}

\* index of the last step for which computeStep was entered, -1 if none
LastExecuted == IF Executing THEN step ELSE step - 1

\* the inlet holds the feed / holds pure carrier gas
InletIsFeed == \A j \in Comps : P[j] = Mul(p_total, components[j].Yi0)
InletIsCarrier ==
  \A j \in Comps : P[j] = (IF j = carrierGasComponent THEN p_total ELSE 0)

\* C1: with no pulse, or while the time of the last committed step is not
\* past tpulse, the inlet partial pressures are p_total * Yi0[j] after
\* initialize and after every committed step (up to rounding).
C1_InletDirichlet ==
  (pc # "constructed" /\ (~pulse \/ step = 0 \/ (step - 1) * dt <= tpulse))
    => \A j \in Comps : Near(P[j], Mul(p_total, components[j].Yi0), Eps)

\* C2: with a pulse, the inlet holds pure carrier gas at the end of exactly
\* those steps whose time step * dt is past tpulse, and once it holds pure
\* carrier gas it does so, and differs from the feed, at every later step end.
C2_PulseSwitch ==
  /\ [](pulse /\ step >= 1 => (InletIsCarrier <=> (step - 1) * dt > tpulse))
  /\ [][pulse /\ step >= 1 /\ InletIsCarrier => InletIsCarrier' /\ ~InletIsFeed']_vars

\* C2 witness: the inlet was switched at an earlier step and is still pure
\* carrier gas at the end of a later one
C2_Witness ==
  /\ pulse /\ pc = "loop" /\ step >= 2
  /\ (step - 2) * dt > tpulse
  /\ InletIsCarrier

\* computeStep(step) is entered with the auto-stop test armed and met
AutoStopFires == pc = "loop" /\ pc' \in {"stage2", "aborted"} /\ Converged

\* C3 as stated: when the armed auto-stop test is met in computeStep(step),
\* Nsteps becomes 1.1 * step rounded up and autoSteps is cleared.
C3_AutoStopCeiling ==
  [][AutoStopFires => Nsteps' = (11 * step + 9) \div 10 /\ ~autoSteps']_vars

\* C3 amended: when the armed auto-stop test is met in computeStep(step),
\* Nsteps becomes 1.1 * step truncated to an integer and autoSteps is cleared.
C3_AutoStopTruncated ==
  [][AutoStopFires => Nsteps' = (11 * step) \div 10 /\ ~autoSteps']_vars

\* C3 witness: the test was met at a step whose 1.1-fold is not an integer
C3_Witness ==
  /\ convStep >= 1 /\ ~autoSteps
  /\ Nsteps = (11 * convStep) \div 10
  /\ Nsteps < (11 * convStep + 9) \div 10

\* C4 as stated: computeStep is never entered for a step index at or above
\* the configured number of steps, with or without autoSteps, and a run
\* with autoSteps off ends having executed the steps 0..Nsteps-1.
C4_StepCountStop ==
  /\ Executing => step < input.numberOfTimeSteps
  /\ (~input.autoNumberOfTimeSteps /\ pc = "done") => step = input.numberOfTimeSteps

\* C4 amended: with autoSteps off, computeStep is never entered for a step
\* index at or above the configured number of steps, the steps are executed
\* one after the other from 0, and the run ends, after step Nsteps-1 or
\* with the exception computeStep throws.
C4_StepCountStopFixed ==
  /\ [](~input.autoNumberOfTimeSteps =>
          /\ Executing => step < input.numberOfTimeSteps
          /\ pc = "done" => step = input.numberOfTimeSteps)
  /\ [][step' = step \/ (pc = "commit" /\ step' = step + 1)]_vars
  /\ [](~input.autoNumberOfTimeSteps /\ pc = "loop" /\ step >= input.numberOfTimeSteps
          => ENABLED Finish)

\* C4 witness: a run with autoSteps off ended after its last configured step
C4_Witness ==
  /\ ~input.autoNumberOfTimeSteps /\ pc = "done"
  /\ step = input.numberOfTimeSteps /\ step >= 2

Failures == iastPerformance[1] - iastPerformance[2]

\* C6: when a call of predictMixture made during a step reports failure, the
\* run aborts in that step.
C6_OracleFailureFatal ==
  [][(pc \in {"loop", "stage2", "stage3"} /\ Failures' > Failures) => pc' = "aborted"]_vars

\* C7: when the committed outlet total pressure Pt[N] is negative after a
\* step, no further step is committed and the run does not end normally.
C7_NegativeOutletFatal ==
  /\ [][(step >= 1 /\ Lt(Pt[Ngrid], 0)) => step' = step]_vars
  /\ []((step >= 1 /\ Lt(Pt[Ngrid], 0)) => pc # "done")

\* the mole fractions of every node sum to one (up to rounding)
YClosed == \A i \in Nodes : Near(SumRow(Yi, i, Ncomp), ToDouble(1), Eps)

\* C8: the mole fractions of every node sum to one after initialize, and a
\* step that starts with them summing to one ends with them summing to one.
C8_MoleFractionClosure ==
  /\ []((pc = "loop" /\ step = 0) => YClosed)
  /\ [][YClosed => YClosed']_vars

\* C9: after initialize and after every committed step the partial pressures
\* of every node, the inlet included, sum to its total pressure (up to
\* rounding).
C9_PressureClosure ==
  pc # "constructed" => \A i \in Nodes : Near(SumRow(P, i, Ncomp), Pt[i], Eps)

\* a is a number not below zero (up to rounding)
NonNeg(a) == ~IsNaN(a) /\ a >= 0 - Eps

\* C10: after initialize and after any number of steps no partial pressure
\* and no loading is negative.
C10_NonNegativity ==
  pc # "constructed" => \A k \in Cells : NonNeg(P[k]) /\ NonNeg(Q[k])

\* initialize has returned and no step has been committed
Initialized == pc = "loop" /\ step = 0

\* C11: the committed inlet total pressure is p_total after initialize and
\* after every committed step (up to rounding).
C11_InletTotalPressure == pc # "constructed" => Near(Pt[0], p_total, Eps)

\* C12: the committed inlet velocity is v_in after initialize and after
\* every committed step.
C12_InletVelocity == pc # "constructed" => V[0] = v_in

\* C13: a run that completes ends with status 0 and nothing on the error
\* stream; a run in which an exception is thrown ends with status -1 and the
\* exception's message on the error stream; either way main does end.
C13_ExitStatus ==
  /\ (exited /\ pc = "done") => (exitStatus = 0 /\ cerr = <<>>)
  /\ (exited /\ pc = "aborted") => (exitStatus = 0 - 1 /\ cerr = <<what>>)
  /\ (pc \in {"done", "aborted"} /\ ~exited) => ENABLED MainExit
  /\ exited => pc \in {"done", "aborted"}

\* C13 witness: a run ended by the exception of computeEquilibriumLoadings
C13_Witness == exited /\ pc = "aborted" /\ exitStatus = 0 - 1 /\ step = 0

\* the steps committed so far that are due a frame
FramedSteps == {s \in 0..(step - 1) : s % writeEvery = 0}

\* C14: the frames written are, in order, those of the committed steps with
\* step mod writeEvery = 0; a frame is written in the loop body of its step,
\* after the commit and with the committed values, before the next step
\* starts; a frame has one line per node, in the order i = 0..N.
C14_FrameEmission ==
  /\ [](/\ Len(movie) = Cardinality(FramedSteps)
        /\ \A k \in DOMAIN movie :
             /\ movie[k].step = (k - 1) * writeEvery
             /\ Len(movie[k].lines) = Ngrid + 1
             /\ \A n \in DOMAIN movie[k].lines :
                  movie[k].lines[n].z = Mul(ToDouble(n - 1), dx))
  /\ [][movie' # movie =>
          /\ pc = "commit" /\ pc' = "loop" /\ step' = step + 1
          /\ Len(movie') = Len(movie) + 1
          /\ movie'[Len(movie')].step = step
          /\ \A i \in Nodes :
               /\ movie'[Len(movie')].lines[i + 1].V = V'[i]
               /\ movie'[Len(movie')].lines[i + 1].Pt = Pt'[i]]_vars

\* C14 witness: with writeEvery = 2, steps 0..3 are committed and the frames
\* of steps 0 and 2 are written
C14_Witness ==
  /\ writeEvery = 2 /\ pc = "loop" /\ step = 4
  /\ Len(movie) = 2 /\ movie[2].step = 2

\* C15: once the host has asked for cancellation, no further step is started.
C15_CooperativeCancel ==
  [][cancelRequested => ~(pc = "loop" /\ pc' \in {"stage2", "aborted"})]_vars

\* C16: with dt = 0, a committed step leaves Q, Qeq, P, Yi, Pt and V as they
\* were before the step.
C16_ZeroDtIdempotent ==
  [][(dt = 0 /\ pc = "commit") =>
       (Q' = Q /\ Qeq' = Qeq /\ P' = P /\ Yi' = Yi /\ Pt' = Pt /\ V' = V)]_vars

\* after initialize: zero loadings, the feed at the inlet node, and at every
\* node i >= 1 the carrier gas alone, at the pressure ptAt[i]
InitialStateWith(ptAt) ==
  /\ \A k \in Cells : Q[k] = 0
  /\ \A j \in Comps : P[j] = Mul(p_total, components[j].Yi0)
  /\ \A i \in 1..Ngrid : \A j \in Comps :
       P[i * Ncomp + j] = (IF j = carrierGasComponent THEN ptAt[i] ELSE 0)

\* C17 as stated: after initialize the loadings are zero, every node i >= 1
\* holds pure carrier gas at p_total, and the inlet holds p_total * Yi0[j].
C17_InitialStateFlat ==
  Initialized => InitialStateWith([i \in Nodes |-> p_total])

\* C17 amended: after initialize the loadings are zero, every node i >= 1
\* holds pure carrier gas at the Ergun initial pressure of that node, which
\* is p_total at the outlet node, and the inlet holds p_total * Yi0[j].
C17_InitialState ==
  Initialized =>
    /\ InitialStateWith([i \in Nodes |-> InitialPressureAt(i, T)])
    /\ P[Ngrid * Ncomp + carrierGasComponent] = p_total

\* C17 witness: initialize has left an interior node at a carrier pressure
\* above p_total
C17_Witness ==
  /\ Initialized /\ Ngrid >= 2
  /\ P[Ncomp + carrierGasComponent] > p_total
  /\ IsFinite(P[Ncomp + carrierGasComponent])

\* C18: after initialize Pt[N] = p_total and Pt at every node, the inlet
\* included, is the Ergun profile integrated backward from the outlet; with
\* v_in > 0 the inlet pressure exceeds the outlet pressure and Pt does not
\* increase from inlet to outlet.
C18_ErgunInitialProfile ==
  Initialized =>
    /\ Pt[Ngrid] = p_total
    /\ \A i \in Nodes : Pt[i] = InitialPressureAt(i, T)
    /\ Gt(v_in, 0) => Gt(Pt[0], Pt[Ngrid])
    /\ Gt(v_in, 0) => \A i \in 0..(Ngrid - 1) : ~Lt(Pt[i], Pt[i + 1])

\* C19: the oracle call of a node writes nothing that the work of another
\* node reads or writes (no shared result buffer, no shared counter), and
\* whatever the order or interleaving of the per-node work, the sweep ends
\* with Qeqnew[i,.] the oracle's result for node i at every node.
C19_OracleRaceFree ==
  /\ [][called' # called => (Ni' = Ni /\ iastPerformance' = iastPerformance)]_vars
  /\ []((pc \in {"stage2", "aborted"} /\ step = 0) => Qeqnew = computeEquilibriumLoadings)

\* C20: after each of the three SSP-RK stages of computeStep, Qeqnew[i,.] is
\* the oracle's result for the state that stage has just written,
\* (Yinew[i,.], Ptnew[i]), at every node i.
C20_StageReEquilibration ==
  pc \in {"stage2", "stage3", "commit"} =>
    \A i \in Nodes : \A j \in Comps :
      Qeqnew[i * Ncomp + j] = predictMixture(Row(Yinew, i), Ptnew[i])[j]

\* C21: after each of the three SSP-RK stages, Vnew is the Ergun closure
\* evaluated on the total pressure that stage has just written: Vnew[0] is
\* v_in and Vnew[i], i >= 1, is the root of the quadratic in Ptnew.
C21_StageVelocity ==
  pc \in {"stage2", "stage3", "commit"} =>
    /\ Vnew[0] = v_in
    /\ \A i \in 1..Ngrid : Vnew[i] = VelocityAt(Ptnew, i, T)

\* C22: at the end of every SSP-RK stage Pnew[i,j] = Yinew[i,j] * Ptnew[i]
\* at every node and component, and in a run without pulse the committed
\* arrays satisfy P[i,j] = Yi[i,j] * Pt[i] after every step.
C22_PartialPressureReconstruction ==
  /\ pc \in {"stage2", "stage3", "commit"} =>
       \A k \in Cells : Pnew[k] = Mul(Yinew[k], Ptnew[k \div Ncomp])
  /\ (~pulse /\ step >= 1) =>
       \A k \in Cells : P[k] = Mul(Yi[k], Pt[k \div Ncomp])

\* two steps of a run without pulse are committed with finite values
C22_Witness ==
  /\ ~pulse /\ pc = "loop" /\ step >= 2
  /\ \A k \in Cells : IsFinite(P[k]) /\ IsFinite(Yi[k])
  /\ \E k \in Cells : P[k] # 0 /\ P[k] # InitialP(computeInitialPressure(T))[k]

\* C23: from the start of computeStep up to its commit phase none of the
\* committed arrays Q, P, Yi, Pt, V, Qeq is written, so a step that ends
\* with the exception thrown inside a stage leaves the six arrays as the
\* previous step committed them.
C23_CommitOnlyMutation ==
  [][(pc \in {"loop", "stage2", "stage3"} \/ pc' = "aborted") =>
       (Q' = Q /\ P' = P /\ Yi' = Yi /\ Pt' = Pt /\ V' = V /\ Qeq' = Qeq)]_vars

\* the exception is thrown in a stage that has written the shadow buffers
C23_Witness ==
  /\ pc = "aborted"
  /\ Ptnew # Pt /\ Qeqnew # Qeq /\ Qnew # Q
  /\ \A k \in Cells : IsFinite(P[k])

\* C24: for every component j, Yi[0,j] after any sequence of computeStep
\* calls is the value initialize left there: no step after initialize
\* changes it; the pulse switch overwrites P[0,.] and leaves Yi[0,.] at the
\* feed composition.
C24_InletMoleFractionFrozen ==
  /\ [][pc # "constructed" => \A j \in Comps : Yi'[j] = Yi[j]]_vars
  /\ []((pc # "constructed" /\ InletIsCarrier /\ ~InletIsFeed) =>
          \A j \in Comps : Near(Yi[j], components[j].Yi0, Eps))

\* the pulse switch has been made and two more steps are committed
C24_Witness ==
  /\ pulse /\ pc = "loop" /\ step >= 3
  /\ InletIsCarrier /\ ~InletIsFeed
  /\ Yi[carrierGasComponent] # ToDouble(1)

\* C25: in computeVelocity the coefficient of V squared, term_a, is the
\* turbulent (1.75) prefactor with the pressure/temperature factor, the
\* linear coefficient term_b is the laminar (150 mu) prefactor with the
\* Sutherland factor, as computeInitialPressure pairs them, and term_c is
\* (Pt[i] - Pt[i-1]) / dx.
C25_ErgunQuadratic ==
  pc \in {"stage2", "stage3", "commit"} =>
    \A i \in 1..Ngrid :
      IsFinite(Pt[i]) /\ IsFinite(Pt[i - 1]) =>
        /\ term_a(Pt, i, T) = Mul(turbulent_prefactor, Div(Pt[i], T))
        /\ term_b(T) = Sutherland(laminar_prefactor, T)
        /\ term_c(Pt, i) = Div(Sub(Pt[i], Pt[i - 1]), dx)

\* C26: initialize makes one oracle call per node, every stage of
\* computeStep makes one call per node, the calls of a sweep are made in the
\* node order 0..N, the call for node i is passed the scratch slices of node
\* i, and after k completed steps (N+1) * (1 + 3k) calls have been made.
C26_OracleCallSchedule ==
  /\ \A n \in DOMAIN oracleLog :
       LET i == (n - 1) % (Ngrid + 1) IN
       /\ oracleLog[n].node = i
       /\ oracleLog[n].P0 = i * Ncomp * maxIsothermTerms
       /\ oracleLog[n].Psi = i * maxIsothermTerms
  /\ pc = "constructed" => Len(oracleLog) = 0
  /\ pc \in {"loop", "done"} => Len(oracleLog) = (Ngrid + 1) * (1 + 3 * step)
  /\ pc = "stage2" => Len(oracleLog) = (Ngrid + 1) * (2 + 3 * step)
  /\ pc = "stage3" => Len(oracleLog) = (Ngrid + 1) * (3 + 3 * step)
  /\ pc = "commit" => Len(oracleLog) = (Ngrid + 1) * (4 + 3 * step)

\* three steps are completed on a grid of three nodes
C26_Witness ==
  /\ pc = "loop" /\ step = 3 /\ Ngrid = 2
  /\ Len(oracleLog) = 30
  /\ oracleLog[30].node = 2 /\ oracleLog[30].Psi = 4

\* C27: computeFirstDerivatives reads its velocity and pressure arguments
\* only at the indices 0..N, so the derivative it writes for the outlet node
\* is the same whatever value lies past the end of the velocity vector.
C27_InBoundsStencil ==
  pc = "stage2" =>
    \A x \in OOBValues :
      Dpdt[Ngrid] = DpdtAt(prefactor, Qeq, Q, V, x, P, Ngrid, Ncomp - 1)

\* C28: in each of the three SSP-RK stages the pressure argument of
\* computeFirstDerivatives is the node-indexed total pressure of the stage's
\* state, Pt in stage 1 and Ptnew in stages 2 and 3, so the derivatives of
\* stage 1 are those the operator gives for Pt.
C28_SameDerivativeOperator ==
  /\ [][(pc = "loop" /\ pc' \in {"stage2", "aborted"}) =>
          LET d == computeFirstDerivatives(Dpdt, Qeq, Q, V, Pt, Yi) IN
            Dpdt' = d.dpdt /\ Dydt' = d.dydt /\ Dqdt' = d.dqdt]_vars
  /\ [][(pc \in {"stage2", "stage3"} /\ pc' \in {"stage3", "commit", "aborted"}) =>
          LET d == computeFirstDerivatives(Dpdtnew, Qeqnew, Qnew, Vnew, Ptnew, Yinew) IN
            Dpdtnew' = d.dpdt /\ Dydtnew' = d.dydt /\ Dqdtnew' = d.dqdt]_vars

\* C29: the pressure derivative computeFirstDerivatives produces for node i
\* contains the sorption sink prefactor[j] * (qeq[i,j] - q[i,j]) of every
\* component j: it is the transport part of the node minus the sum of the
\* sinks over all components.
C29_PressureSinkAllComponents ==
  pc \in {"stage2", "stage3", "commit"} =>
    \A i \in Nodes :
      LET first == DpdtAt(prefactor, Qeq, Q, V, IF i < Ngrid THEN V[i + 1] ELSE pastEnd,
                          P, i, 0)
          sink0 == Mul(prefactor[0], Sub(Qeq[i * Ncomp], Q[i * Ncomp]))
          transport == Add(first, sink0)
      IN  Dpdt[i] = Sub(transport, SumSorption(prefactor, Qeq, Q, i, Ncomp))

\* C30: a record run() writes with the time label t = k * dt shows the state
\* after exactly k committed steps: the label of a record is the number of
\* steps committed when it is written times dt, and the record labelled
\* t = 0 shows the outlet as initialize left it (pure carrier at p_total).
C30_TimeLabelMatchesState ==
  /\ [][movie' # movie =>
          LET r == movie'[Len(movie')].data IN
          /\ r.minutes = Div(Mul(ToDouble(step'), dt), ToDouble(60))
          /\ r.tau = Div(Mul(Mul(ToDouble(step'), dt), v_in), L)]_vars
  /\ [](\A k \in DOMAIN movie :
          movie[k].data.minutes = 0 =>
            \A j \in Comps :
              movie[k].data.Pnorm[j] =
                Div(IF j = carrierGasComponent THEN p_total ELSE 0,
                    Mul(Add(p_total, Mul(dptdx, L)), components[j].Yi0)))

====
